---------------------------- MODULE Spec2Model ----------------------------
(***************************************************************************)
(* Field arithmetic of bp256/src/arithmetic/field.rs (FieldElement over    *)
(* the brainpoolP256 base field), as a state machine of one caller that    *)
(* obtains an element and then applies the public operations to it.        *)
(*                                                                         *)
(* Scale.  TLC has 32-bit integers, so the 256-bit field is modelled at a  *)
(* reduced width: a "byte" has ByteBits bits, an encoding has NumBytes     *)
(* bytes, the unsigned integer type (U256 in the source) has               *)
(* UintBits = NumBytes * ByteBits bits, a u64 has WordBits bits, and the   *)
(* modulus is the prime obtained from the leading UintBits bits of the     *)
(* source's modulus.  Every formula below is written against these names,  *)
(* never against their values.                                             *)
(*                                                                         *)
(* The fiat_bp256_* kernels (field/bp256_64.rs) and the macro              *)
(* impl_bernstein_yang_invert (primeorder) are not part of field.rs; they  *)
(* are modelled from their documented contracts: Montgomery arithmetic     *)
(* with R = 2^UintBits and the Bernstein-Yang divstep iteration.           *)
(***************************************************************************)
EXTENDS Integers, Sequences, FiniteSets, TLC

VARIABLES acc, call, self, rhs, input, ret

vars == <<acc, call, self, rhs, input, ret>>

---------------------------------------------------------------------------
(* Scale of the model and bounds of the inputs. *)

\* bits of one byte of an encoding (8 in the source)
ByteBits == 2

\* bytes of one encoding: the 32 of FieldBytes and of from_slice's length test
NumBytes == 3

\* binary operations take every right operand whose canonical value is below
\* MaxOperand or within MaxOperand of the modulus
MaxOperand == 21

\* exponents have at most MaxExpWords words
MaxExpWords == 2

\* exponent words are the values below MaxExpWord and the all-ones word
MaxExpWord == 3

\* the leading 16 bits of MODULUS_HEX, "a9fb..."
ModulusTop16 == 43515

UintBits == NumBytes * ByteBits

\* bits of a u64: a quarter of U256 in the source, two bytes here
WordBits == 2 * ByteBits

UintRange == 0 .. (2 ^ UintBits - 1)

ByteRange == 0 .. (2 ^ ByteBits - 1)

WordRange == 0 .. (2 ^ WordBits - 1)

IsPrime(n) == n > 1 /\ \A k \in 2 .. (n - 1) : k * k > n \/ n % k # 0

\* const MODULUS: U256 = U256::from_be_hex(MODULUS_HEX), at the model's width:
\* the leading UintBits bits of the source's modulus, moved down to a prime
MODULUS ==
    LET top == ModulusTop16 \div (2 ^ (16 - UintBits))
    IN  CHOOSE p \in 2 .. top :
            IsPrime(p) /\ \A q \in (p + 1) .. top : ~IsPrime(q)

---------------------------------------------------------------------------
(* fiat-crypto kernels: Montgomery arithmetic with R = 2^UintBits. *)

MontR == 2 ^ UintBits

\* -MODULUS^-1 mod R, the word-by-word reduction constant
MontNPrime == CHOOSE n \in UintRange : (n * MODULUS) % MontR = MontR - 1

\* R^2 mod MODULUS, the constant to_montgomery multiplies by
MontR2 == (((MontR % MODULUS) * (MontR % MODULUS)) % MODULUS)

\* Montgomery reduction of t < R * MODULUS: t * R^-1 mod MODULUS
MontRedc(t) ==
    LET m == ((t % MontR) * MontNPrime) % MontR
        u == (t + m * MODULUS) \div MontR
    IN  IF u >= MODULUS THEN u - MODULUS ELSE u

fiat_bp256_mul(a, b) == MontRedc(a * b)

fiat_bp256_square(a) == MontRedc(a * a)

fiat_bp256_add(a, b) ==
    LET s == a + b IN IF s >= MODULUS THEN s - MODULUS ELSE s

fiat_bp256_sub(a, b) ==
    LET d == a - b IN IF d < 0 THEN d + MODULUS ELSE d

fiat_bp256_opp(a) ==
    LET d == 0 - a IN IF d < 0 THEN d + MODULUS ELSE d

fiat_bp256_to_montgomery(w) == fiat_bp256_mul(w, MontR2)

fiat_bp256_from_montgomery(w) == fiat_bp256_mul(w, 1)

fiat_bp256_msat == MODULUS

fiat_bp256_selectznz(c, z, nz) == IF c = 0 THEN z ELSE nz

DivstepState == [d : Int, f : Int, g : Int, v : Int, r : Int]

\* one divstep on (d, f, g, v, r); every choice is a select on the data
fiat_bp256_divstep[st \in DivstepState] ==
    LET g0   == st.g % 2
        cond == IF st.d > 0 /\ g0 = 1 THEN 1 ELSE 0
        d1   == fiat_bp256_selectznz(cond, st.d, 0 - st.d)
        f1   == fiat_bp256_selectznz(cond, st.f, st.g)
        g1   == fiat_bp256_selectznz(cond, st.g, 0 - st.f)
        v1   == fiat_bp256_selectznz(cond, st.v, st.r)
        r1   == fiat_bp256_selectznz(cond, st.r, fiat_bp256_opp(st.v))
    IN  [d |-> d1 + 1,
         f |-> f1,
         g |-> (g1 + g0 * f1) \div 2,
         v |-> fiat_bp256_add(v1, v1),
         r |-> fiat_bp256_add(r1, fiat_bp256_selectznz(g0, 0, v1))]

\* the number of divsteps: ITERATIONS of impl_bernstein_yang_invert for d bits
ITERATIONS == (49 * UintBits + 57) \div 17

RECURSIVE HalfPow(_)
HalfPow(n) ==
    IF n = 0 THEN 1 ELSE (HalfPow(n - 1) * ((MODULUS + 1) \div 2)) % MODULUS

\* 2^-ITERATIONS in Montgomery form
fiat_bp256_divstep_precomp == fiat_bp256_to_montgomery(HalfPow(ITERATIONS))

\* the main loop leaving as soon as g is zero, as a variable-time gcd would
RECURSIVE by_loop_early(_, _, _)
by_loop_early(i, st, path) ==
    IF i < ITERATIONS - (ITERATIONS % 2) /\ st.g # 0
    THEN by_loop_early(i + 2,
                       fiat_bp256_divstep[fiat_bp256_divstep[st]],
                       Append(path, "round"))
    ELSE [i |-> i, st |-> st, path |-> Append(path, "exit")]

\* the macro's main loop: two divsteps per round while i < ITERATIONS - ITERATIONS % 2
RECURSIVE by_loop(_, _, _)
by_loop(i, st, path) ==
    IF i < ITERATIONS - (ITERATIONS % 2)
    THEN by_loop(i + 2,
                 fiat_bp256_divstep[fiat_bp256_divstep[st]],
                 Append(path, "round"))
    ELSE [i |-> i, st |-> st, path |-> Append(path, "exit")]

\* primeorder::impl_bernstein_yang_invert!(a, one, 256, LIMBS, ...): the result
\* words, the number of divsteps taken and the branches of the macro body
impl_bernstein_yang_invert(a, one) ==
    LET st0  == [d |-> 1,
                 f |-> fiat_bp256_msat,
                 g |-> fiat_bp256_from_montgomery(a),
                 v |-> 0,
                 r |-> one]
        l    == by_loop(0, st0, <<>>)
        odd  == ITERATIONS % 2 # 0
        last == IF odd THEN fiat_bp256_divstep[l.st] ELSE l.st
        f    == last.f
        v    == last.v
        s    == IF f < 0 THEN 1 ELSE 0
        v2   == fiat_bp256_selectznz(s, v, fiat_bp256_opp(v))
    IN  [out      |-> fiat_bp256_mul(v2, fiat_bp256_divstep_precomp),
         divsteps |-> l.i + (IF odd THEN 1 ELSE 0),
         path     |-> Append(l.path, IF odd THEN "tail" ELSE "notail")]

---------------------------------------------------------------------------
(* crypto-bigint and subtle primitives used by field.rs. *)

RECURSIVE from_be_byte_array(_)
from_be_byte_array(bytes) ==
    IF bytes = <<>>
    THEN 0
    ELSE from_be_byte_array(SubSeq(bytes, 1, Len(bytes) - 1)) * (2 ^ ByteBits)
             + bytes[Len(bytes)]

to_be_byte_array(u) ==
    [i \in 1 .. NumBytes |-> (u \div (2 ^ (ByteBits * (NumBytes - i)))) % (2 ^ ByteBits)]

ct_lt(a, b) == a < b

ct_eq(a, b) == a = b

---------------------------------------------------------------------------
(* impl FieldElement *)

from_uint_unchecked(w) == fiat_bp256_to_montgomery(w)

ZERO == 0

ONE == from_uint_unchecked(1)

\* from_uint with the range test written as <= instead of <
from_uint_le(uint) ==
    [val |-> from_uint_unchecked(uint), is_some |-> uint <= MODULUS]

from_uint(uint) ==
    [val |-> from_uint_unchecked(uint), is_some |-> ct_lt(uint, MODULUS)]

from_bytes(field_bytes) == from_uint(from_be_byte_array(field_bytes))

\* from_slice with the length test written as <= instead of ==
from_slice_short(slice) ==
    IF Len(slice) <= NumBytes
    THEN LET o == from_uint(from_be_byte_array(slice))
         IN  IF o.is_some
             THEN [ok |-> TRUE, val |-> <<o.val>>, err |-> "-"]
             ELSE [ok |-> FALSE, val |-> <<>>, err |-> "Error"]
    ELSE [ok |-> FALSE, val |-> <<>>, err |-> "Error"]

from_slice(slice) ==
    IF Len(slice) = NumBytes
    THEN LET o == from_bytes(slice)
         IN  IF o.is_some
             THEN [ok |-> TRUE, val |-> <<o.val>>, err |-> "-"]
             ELSE [ok |-> FALSE, val |-> <<>>, err |-> "Error"]
    ELSE [ok |-> FALSE, val |-> <<>>, err |-> "Error"]

from_u64(w) == from_uint_unchecked(w)

to_bytes(e) == to_be_byte_array(e)

to_canonical(e) == fiat_bp256_from_montgomery(e)

is_odd(e) == to_canonical(e) % 2 = 1

is_even(e) == ~is_odd(e)

is_zero(e) == ct_eq(e, ZERO)

add(e, r) == fiat_bp256_add(e, r)

double(e) == add(e, e)

sub(e, r) == fiat_bp256_sub(e, r)

\* multiply without the Montgomery reduction: the product of the stored words
multiply_plain(e, r) == (e * r) % MODULUS

multiply(e, r) == fiat_bp256_mul(e, r)

\* neg as modulus - self, without the reduction of the result for self = 0
neg_nowrap(e) == MODULUS - e

neg(e) == fiat_bp256_opp(e)

square(e) == fiat_bp256_square(e)

PowState == [res : Int, squares : Nat, mults : Nat]

\* the body of pow_vartime's inner loop for one exponent bit:
\* res = res.square(); if bit == 1 { res = res.multiply(self) }
pow_step[st \in PowState, e \in Int, bit \in {0, 1}] ==
    LET sq == square(st.res)
    IN  IF bit = 1
        THEN [res |-> multiply(sq, e),
              squares |-> st.squares + 1, mults |-> st.mults + 1]
        ELSE [res |-> sq, squares |-> st.squares + 1, mults |-> st.mults]

\* the inner loop of pow_vartime: bits j-1 .. 0 of the word w
RECURSIVE pow_bits(_, _, _, _)
pow_bits(e, w, j, st) ==
    IF j = 0
    THEN st
    ELSE pow_bits(e, w, j - 1, pow_step[st, e, (w \div (2 ^ (j - 1))) % 2])

\* pow_vartime's outer loop scanning the words from the first to the last
RECURSIVE pow_words_fwd(_, _, _, _)
pow_words_fwd(e, exp, i, st) ==
    IF i = 0
    THEN st
    ELSE pow_words_fwd(e, exp, i - 1,
                       pow_bits(e, exp[Len(exp) + 1 - i], WordBits, st))

\* the outer loop of pow_vartime: words i .. 1 of exp
RECURSIVE pow_words(_, _, _, _)
pow_words(e, exp, i, st) ==
    IF i = 0
    THEN st
    ELSE pow_words(e, exp, i - 1, pow_bits(e, exp[i], WordBits, st))

\* pow_vartime with the squarings and multiplications it performed
pow_vartime_run(e, exp) ==
    pow_words(e, exp, Len(exp), [res |-> ONE, squares |-> 0, mults |-> 0])

pow_vartime(e, exp) == pow_vartime_run(e, exp).res

invert_unchecked_run(e) == impl_bernstein_yang_invert(e, ONE)

invert_unchecked(e) == invert_unchecked_run(e).out

\* invert with the zero flag not negated
invert_noneg(e) == [val |-> invert_unchecked(e), is_some |-> is_zero(e)]

invert(e) == [val |-> invert_unchecked(e), is_some |-> ~is_zero(e)]

\* impl PrimeField for FieldElement
from_repr(bytes) == from_bytes(bytes)

to_repr(e) == to_bytes(e)

TWO_INV == invert_unchecked(from_u64(2))

MULTIPLICATIVE_GENERATOR == ZERO

S == 0

ROOT_OF_UNITY == ZERO

ROOT_OF_UNITY_INV == ZERO

DELTA == ZERO

---------------------------------------------------------------------------
(* The caller.  acc is the element the caller holds (<<>> when it holds    *)
(* none, <<e>> when it holds the element with internal words e); call,     *)
(* self, rhs and input are the last call and its arguments, ret its result.*)
(* A caller that holds no element obtains one; a caller that holds one     *)
(* applies a method to it; after a call has returned the caller goes on    *)
(* with what it holds (Continue).                                          *)

Ret0 ==
    [kind |-> "unit", val |-> 0, flag |-> FALSE, bytes |-> <<>>, err |-> "-",
     squares |-> 0, mults |-> 0, divsteps |-> 0, path |-> <<>>]

RetElement(e) == [Ret0 EXCEPT !.kind = "FieldElement", !.val = e]

RetCtOption(o) == [Ret0 EXCEPT !.kind = "CtOption", !.val = o.val, !.flag = o.is_some]

RetChoice(c) == [Ret0 EXCEPT !.kind = "Choice", !.flag = c]

RetBytes(b) == [Ret0 EXCEPT !.kind = "FieldBytes", !.bytes = b]

\* Option::from(CtOption)
OptionFrom(o) == IF o.is_some THEN <<o.val>> ELSE <<>>

Encodings == [1 .. NumBytes -> ByteRange]

Slices == UNION {[1 .. n -> ByteRange] : n \in 0 .. (NumBytes + 1)}

Operands ==
    {from_uint_unchecked(y) :
        y \in {z \in 0 .. (MODULUS - 1) : z < MaxOperand \/ z >= MODULUS - MaxOperand}}

ExpWordValues == {w \in WordRange : w < MaxExpWord \/ w = 2 ^ WordBits - 1}

Exps == UNION {[1 .. n -> ExpWordValues] : n \in 0 .. MaxExpWords}

ElementConsts ==
    [ZERO |-> ZERO, ONE |-> ONE, TWO_INV |-> TWO_INV,
     MULTIPLICATIVE_GENERATOR |-> MULTIPLICATIVE_GENERATOR,
     ROOT_OF_UNITY |-> ROOT_OF_UNITY,
     ROOT_OF_UNITY_INV |-> ROOT_OF_UNITY_INV,
     DELTA |-> DELTA]

Init ==
    /\ acc = <<>>
    /\ call = "idle"
    /\ self = <<>>
    /\ rhs = <<>>
    /\ input = <<>>
    /\ ret = Ret0

\* the caller is between calls and holds no element
Empty == call = "idle" /\ acc = <<>>

\* the caller is between calls and holds an element
Holding == call = "idle" /\ acc # <<>>

\* what every call records
Called(name, s, r, in, out, held) ==
    /\ call' = name
    /\ self' = s
    /\ rhs' = r
    /\ input' = in
    /\ ret' = out
    /\ acc' = held

\* FieldElement::ZERO, ::ONE and the element constants of impl PrimeField
ReadConst ==
    /\ Empty
    /\ \E name \in DOMAIN ElementConsts :
          Called(name, <<>>, <<>>, <<>>, RetElement(ElementConsts[name]),
                 <<ElementConsts[name]>>)

\* <FieldElement as PrimeField>::S
ReadS ==
    /\ Empty
    /\ Called("S", <<>>, <<>>, <<>>, [Ret0 EXCEPT !.kind = "u32", !.val = S], <<>>)

FromUint ==
    /\ Empty
    /\ \E x \in UintRange :
          LET o == from_uint(x)
          IN  Called("from_uint", <<>>, <<>>, <<x>>, RetCtOption(o), OptionFrom(o))

FromBytes ==
    /\ Empty
    /\ \E b \in Encodings :
          LET o == from_bytes(b)
          IN  Called("from_bytes", <<>>, <<>>, b, RetCtOption(o), OptionFrom(o))

FromRepr ==
    /\ Empty
    /\ \E b \in Encodings :
          LET o == from_repr(b)
          IN  Called("from_repr", <<>>, <<>>, b, RetCtOption(o), OptionFrom(o))

FromSlice ==
    /\ Empty
    /\ \E sl \in Slices :
          LET r == from_slice(sl)
          IN  Called("from_slice", <<>>, <<>>, sl,
                     [Ret0 EXCEPT !.kind = "Result", !.flag = r.ok,
                                  !.val = IF r.ok THEN r.val[1] ELSE 0,
                                  !.err = r.err],
                     r.val)

FromU64 ==
    /\ Empty
    /\ \E w \in WordRange :
          Called("from_u64", <<>>, <<>>, <<w>>, RetElement(from_u64(w)), <<from_u64(w)>>)

ToBytes ==
    /\ Holding
    /\ Called("to_bytes", acc, <<>>, <<>>, RetBytes(to_bytes(acc[1])), acc)

ToRepr ==
    /\ Holding
    /\ Called("to_repr", acc, <<>>, <<>>, RetBytes(to_repr(acc[1])), acc)

ToCanonical ==
    /\ Holding
    /\ Called("to_canonical", acc, <<>>, <<>>,
              [Ret0 EXCEPT !.kind = "U256", !.val = to_canonical(acc[1])], acc)

IsOdd ==
    /\ Holding
    /\ Called("is_odd", acc, <<>>, <<>>, RetChoice(is_odd(acc[1])), acc)

IsEven ==
    /\ Holding
    /\ Called("is_even", acc, <<>>, <<>>, RetChoice(is_even(acc[1])), acc)

IsZero ==
    /\ Holding
    /\ Called("is_zero", acc, <<>>, <<>>, RetChoice(is_zero(acc[1])), acc)

Add ==
    /\ Holding
    /\ \E r \in Operands :
          Called("add", acc, <<r>>, <<>>, RetElement(add(acc[1], r)), <<add(acc[1], r)>>)

Sub ==
    /\ Holding
    /\ \E r \in Operands :
          Called("sub", acc, <<r>>, <<>>, RetElement(sub(acc[1], r)), <<sub(acc[1], r)>>)

Multiply ==
    /\ Holding
    /\ \E r \in Operands :
          Called("multiply", acc, <<r>>, <<>>,
                 RetElement(multiply(acc[1], r)), <<multiply(acc[1], r)>>)

Double ==
    /\ Holding
    /\ Called("double", acc, <<>>, <<>>, RetElement(double(acc[1])), <<double(acc[1])>>)

Neg ==
    /\ Holding
    /\ Called("neg", acc, <<>>, <<>>, RetElement(neg(acc[1])), <<neg(acc[1])>>)

Square ==
    /\ Holding
    /\ Called("square", acc, <<>>, <<>>, RetElement(square(acc[1])), <<square(acc[1])>>)

PowVartime ==
    /\ Holding
    /\ \E exp \in Exps :
          LET run == pow_vartime_run(acc[1], exp)
          IN  Called("pow_vartime", acc, <<>>, exp,
                     [RetElement(pow_vartime(acc[1], exp)) EXCEPT
                          !.squares = run.squares, !.mults = run.mults],
                     <<pow_vartime(acc[1], exp)>>)

\* todo!("sqrt not implemented"): the call panics and the caller unwinds
Sqrt ==
    /\ Holding
    /\ Called("sqrt", acc, <<>>, <<>>,
              [Ret0 EXCEPT !.kind = "panic", !.err = "sqrt not implemented"], <<>>)

Invert ==
    /\ Holding
    /\ LET o == invert(acc[1])
       IN  Called("invert", acc, <<>>, <<>>, RetCtOption(o), OptionFrom(o))

InvertUnchecked ==
    /\ Holding
    /\ LET run == invert_unchecked_run(acc[1])
       IN  Called("invert_unchecked", acc, <<>>, <<>>,
                  [RetElement(invert_unchecked(acc[1])) EXCEPT
                       !.divsteps = run.divsteps, !.path = run.path],
                  <<invert_unchecked(acc[1])>>)

\* the call has returned: the caller keeps what it holds and forgets the call
Continue ==
    /\ call # "idle"
    /\ call' = "idle"
    /\ self' = <<>>
    /\ rhs' = <<>>
    /\ input' = <<>>
    /\ ret' = Ret0
    /\ UNCHANGED acc

Next ==
    \/ Continue
    \/ ReadConst
    \/ ReadS
    \/ FromUint
    \/ FromBytes
    \/ FromRepr
    \/ FromSlice
    \/ FromU64
    \/ ToBytes
    \/ ToRepr
    \/ ToCanonical
    \/ IsOdd
    \/ IsEven
    \/ IsZero
    \/ Add
    \/ Sub
    \/ Multiply
    \/ Double
    \/ Neg
    \/ Square
    \/ PowVartime
    \/ Sqrt
    \/ Invert
    \/ InvertUnchecked

Spec == Init /\ [][Next]_vars

TypeOK ==
    /\ acc \in {<<>>} \cup {<<e>> : e \in UintRange}
    /\ self \in {<<>>} \cup {<<e>> : e \in UintRange}
    /\ rhs \in {<<>>} \cup {<<e>> : e \in UintRange}
    /\ ret.val \in UintRange

---------------------------------------------------------------------------
(* Reference definitions the properties are stated with. *)

Canonical == 0 .. (MODULUS - 1)

\* the integer a big-endian byte string denotes
RECURSIVE BeSum(_, _)
BeSum(bytes, i) ==
    IF i > Len(bytes)
    THEN 0
    ELSE bytes[i] * (2 ^ (ByteBits * (Len(bytes) - i))) + BeSum(bytes, i + 1)

\* E = sum(exp[i] * 2^(WordBits * (i - 1))) for little-endian words
RECURSIVE ExpValue(_, _)
ExpValue(exp, i) ==
    IF i > Len(exp)
    THEN 0
    ELSE exp[i] * (2 ^ (WordBits * (i - 1))) + ExpValue(exp, i + 1)

\* x^n mod MODULUS on canonical integers
RECURSIVE PowMod(_, _)
PowMod(x, n) ==
    IF n = 0
    THEN 1
    ELSE IF n % 2 = 0
         THEN PowMod((x * x) % MODULUS, n \div 2)
         ELSE (x * PowMod((x * x) % MODULUS, n \div 2)) % MODULUS

RECURSIVE Ones(_)
Ones(w) == IF w = 0 THEN 0 ELSE (w % 2) + Ones(w \div 2)

\* the number of 1 bits of an exponent
RECURSIVE OneBits(_, _)
OneBits(exp, i) == IF i > Len(exp) THEN 0 ELSE Ones(exp[i]) + OneBits(exp, i + 1)

\* the encoding of the integer 1: NumBytes - 1 zero bytes, then 0x01
OneBytes == [i \in 1 .. NumBytes |-> IF i = NumBytes THEN 1 ELSE 0]

ArithCalls ==
    {"add", "sub", "neg", "double", "multiply", "square", "pow_vartime",
     "invert_unchecked"}

PlaceholderConsts ==
    {"MULTIPLICATIVE_GENERATOR", "S", "ROOT_OF_UNITY", "ROOT_OF_UNITY_INV", "DELTA"}

---------------------------------------------------------------------------
(* Properties. *)

\* C1: for every valid element e, from_bytes(to_bytes(e)) is some(e).
C1_RoundTrip ==
    call = "to_bytes" =>
        from_bytes(ret.bytes) = [val |-> self[1], is_some |-> TRUE]

\* C2: to_bytes(e) and to_repr(e) are the big-endian encoding of
\* to_canonical(e); the bytes 0..0 01 decode to ONE and ONE encodes to them.
C2_CanonicalEncoding ==
    /\ call \in {"to_bytes", "to_repr"} =>
          BeSum(ret.bytes, 1) = to_canonical(self[1])
    /\ call \in {"to_bytes", "to_repr"} /\ self = <<ONE>> => ret.bytes = OneBytes
    /\ call \in {"from_bytes", "from_repr"} /\ input = OneBytes =>
          ret.flag /\ ret.val = ONE

\* C3: from_uint(x) and from_bytes(big-endian bytes of x) return no result
\* exactly when x >= modulus (x = modulus included); when x < modulus the
\* element's to_canonical value is x; neither call aborts.
C3_RangeValidation ==
    /\ call = "from_uint" =>
          /\ ret.kind = "CtOption"
          /\ ret.flag <=> input[1] < MODULUS
          /\ ret.flag => to_canonical(ret.val) = input[1]
    /\ call = "from_bytes" =>
          /\ ret.kind = "CtOption"
          /\ ret.flag <=> BeSum(input, 1) < MODULUS
          /\ ret.flag => to_canonical(ret.val) = BeSum(input, 1)

C3_Witness ==
    /\ call = "from_uint"
    /\ input = <<MODULUS>>
    /\ ~ret.flag

C5_Invert ==
    call = "invert" =>
        /\ ret.kind = "CtOption"
        /\ self = <<ZERO>> => ~ret.flag
        /\ self # <<ZERO>> => ret.flag /\ multiply(self[1], ret.val) = ONE

C5_Witness ==
    /\ call = "invert"
    /\ self # <<ZERO>>
    /\ self # <<ONE>>
    /\ ret.flag
    /\ acc = <<ret.val>>

\* C6: sqrt aborts for every input, and the placeholder constants
\* (MULTIPLICATIVE_GENERATOR, S, ROOT_OF_UNITY, ROOT_OF_UNITY_INV, DELTA)
\* cannot be read as values: reading one gives a not-implemented signal.
C6_FailLoudly ==
    /\ call = "sqrt" => ret.kind = "panic"
    /\ call \in PlaceholderConsts => ret.kind = "panic"

\* C7: every element the caller holds has stored words below the modulus and
\* a to_canonical value in [0, modulus), and no arithmetic operation aborts.
C7_RangeInvariant ==
    /\ acc # <<>> => acc[1] \in Canonical /\ to_canonical(acc[1]) \in Canonical
    /\ call \in ArithCalls =>
          ret.kind = "FieldElement" /\ ret.val \in Canonical /\ acc = <<ret.val>>

C7_Witness ==
    /\ call = "neg"
    /\ self = <<ZERO>>
    /\ acc = <<ZERO>>

\* C8: multiply(from_uint(x), from_uint(y)) = from_uint((x * y) mod modulus)
\* for canonical x, y; for words a, b whose product is a word,
\* multiply(from_u64(a), from_u64(b)) = from_u64(a * b).
C8_Multiply ==
    call = "multiply" =>
        LET x == to_canonical(self[1])
            y == to_canonical(rhs[1])
        IN  /\ from_uint(x) = [val |-> self[1], is_some |-> TRUE]
            /\ from_uint(y) = [val |-> rhs[1], is_some |-> TRUE]
            /\ ret.val = from_uint((x * y) % MODULUS).val
            /\ x \in WordRange /\ y \in WordRange /\ x * y \in WordRange =>
                  /\ self[1] = from_u64(x)
                  /\ rhs[1] = from_u64(y)
                  /\ ret.val = from_u64(x * y)

C8_Witness ==
    /\ call = "multiply"
    /\ self = <<from_u64(3)>>
    /\ rhs = <<from_u64(5)>>
    /\ ret.val = from_u64(15)

\* C9: pow_vartime(a, exp) is a^E for E the little-endian value of exp; it
\* squares once per bit and multiplies once per 1 bit; an empty or all-zero
\* exponent gives ONE for every a, ZERO included.
C9_PowVartime ==
    call = "pow_vartime" =>
        LET E == ExpValue(input, 1)
        IN  /\ to_canonical(ret.val) = PowMod(to_canonical(self[1]), E)
            /\ ret.squares = WordBits * Len(input)
            /\ ret.mults = OneBits(input, 1)
            /\ E = 0 => ret.val = ONE

C9_Witness ==
    /\ call = "pow_vartime"
    /\ Len(input) = MaxExpWords
    /\ input[1] # input[Len(input)]
    /\ input[Len(input)] # 0
    /\ ret.mults > 1
    /\ to_canonical(self[1]) > 1
    /\ ret.val # ONE

\* C10: invert_unchecked takes the same number of divsteps, fixed by the bit
\* width, and the same branches of its loop for every input, zero included.
C10_FixedIterations ==
    call = "invert_unchecked" =>
        /\ ret.divsteps = (49 * UintBits + 57) \div 17
        /\ ret.path = invert_unchecked_run(ZERO).path
        /\ ret.kind = "FieldElement"

C10_Witness ==
    /\ call = "invert_unchecked"
    /\ self # <<ZERO>>
    /\ ret.divsteps > 0
    /\ multiply(self[1], ret.val) = ONE

====
